---- MODULE Spec2Model ----
(***************************************************************************)
(* The commit-history scraper (Ingestor, main and its helpers) and the     *)
(* Summarizer (summarizeData) as state machines.                           *)
(*                                                                         *)
(* A JavaScript string is a sequence of one-character strings, so that     *)
(* substring, replace, split and trim are computed character by character. *)
(* An optional value (null / undefined / an absent JSON key) is the empty  *)
(* sequence, a present value v is <<v>>.                                   *)
(***************************************************************************)
EXTENDS Integers, Sequences, FiniteSets, TLC

VARIABLES
    \* ---- Ingestor: the files and the process ----
    inputFile,          \* exports.json: a sequence of lines
    file,               \* exports_commit_history.json: [state, entries]
    pc,                 \* position of the process in main
    run,                \* how many times the process has been started
    allCommitsData,     \* main: let allCommitsData
    processedRepos,     \* main: let processedRepos
    repoDataList,       \* main: const repoDataList
    i,                  \* main: loop index (0-based, as in the source)
    newReposProcessed,  \* main: let newReposProcessed
    \* ---- Ingestor: what an observer of the file and of the API has seen ----
    startFile,          \* the output file as the current run found it
    fetchLog,           \* listCommits calls of the current run: [key, ok]
    everSaved,          \* entries that a completed writeFileSync has put in the file
    everFailed,         \* keys whose fetch has failed, in this or an earlier run
    \* ---- parseInputFile, line by line ----
    pos,                \* lines consumed by the 'line' handler
    results,            \* parseInputFile: const results
    cleanedRepo,        \* 'line' handler: const cleanedRepo of the last line
    \* ---- Summarizer ----
    jsonData,           \* summarizeData: const jsonData
    inputExists,        \* fs.existsSync(INPUT_FILE_PATH)
    commitsByDay,       \* summarizeData: const commitsByDay (own properties)
    commitsByEcosystem, \* summarizeData: const commitsByEcosystem (own properties)
    totalCommits,       \* summarizeData: let totalCommits
    idx,                \* forEach position in jsonData
    dailyFile,          \* daily_summary.json
    ecoFile             \* ecosystem_summary.json

ingestVars == <<inputFile, file, pc, run, allCommitsData, processedRepos,
                repoDataList, i, newReposProcessed, startFile, fetchLog,
                everSaved, everFailed>>
parseVars == <<pos, results, cleanedRepo>>
sumVars == <<jsonData, inputExists, commitsByDay, commitsByEcosystem,
             totalCommits, idx, dailyFile, ecoFile>>
vars == <<ingestVars, parseVars, sumVars>>

(***************************************************************************)
(* Bounds of the model.                                                    *)
(***************************************************************************)
MaxLines == 2        \* lines of exports.json in the Ingestor runs
MaxRuns == 3         \* starts of the Ingestor process
MaxParseLines == 2   \* lines of exports.json when parseInputFile is stepped
MaxRepos == 2        \* entries of the collection the Summarizer reads
MaxCommits == 2      \* commits of one entry the Summarizer reads

(***************************************************************************)
(* Strings and sequences.                                                  *)
(***************************************************************************)
Range(s) == {s[k] : k \in 1..Len(s)}

IsPrefix(s, t) == Len(s) <= Len(t) /\ SubSeq(t, 1, Len(s)) = s

NoDuplicateKeys(entries) ==
    \A a, b \in 1..Len(entries) :
        entries[a].repository = entries[b].repository => a = b

SeqsUpTo(S, n) == UNION {[1..k -> S] : k \in 0..n}

\* String.prototype.substring(1)
Substring1(s) == SubSeq(s, 2, Len(s))

\* String.prototype.replace(/.git$/, ''): the dot of the pattern is not
\* escaped, so it matches any one character that is not a line terminator.
\* The strings here hold no line terminator (a URL pathname never does).
ReplaceDotGit(s) ==
    LET n == Len(s) IN
    IF n >= 4 /\ SubSeq(s, n - 2, n) = <<"g", "i", "t">>
    THEN SubSeq(s, 1, n - 4) ELSE s

\* String.prototype.split(sep) for a one-character separator: the pieces
\* between the separators, [""] for the empty string.
RECURSIVE Split(_, _)
Split(s, sep) ==
    IF \A k \in 1..Len(s) : s[k] # sep THEN <<s>>
    ELSE LET p == CHOOSE k \in 1..Len(s) :
                      s[k] = sep /\ \A j \in 1..(k - 1) : s[j] # sep
         IN <<SubSeq(s, 1, p - 1)>> \o Split(SubSeq(s, p + 1, Len(s)), sep)

\* name.split(' - ')[0]: the text before the first " - ", all of it if none.
RECURSIVE BeforeDelimiter(_)
BeforeDelimiter(s) ==
    IF Len(s) < 3 THEN s
    ELSE IF SubSeq(s, 1, 3) = <<" ", "-", " ">> THEN <<>>
    ELSE <<Head(s)>> \o BeforeDelimiter(Tail(s))

\* String.prototype.trim() over the whitespace of the model, the space.
RECURSIVE Trim(_)
Trim(s) ==
    IF s = <<>> THEN s
    ELSE IF Head(s) = " " THEN Trim(Tail(s))
    ELSE IF s[Len(s)] = " " THEN Trim(SubSeq(s, 1, Len(s) - 1))
    ELSE s

Unknown == <<"U", "n", "k", "n", "o", "w", "n">>

(***************************************************************************)
(* parseInputFile and its helpers.                                         *)
(*                                                                         *)
(* A line of exports.json is [text, repo_url, eco_name]: text says whether *)
(* the line is blank, fails JSON.parse, or is a JSON record; repo_url is   *)
(* what new URL(data.repo_url) makes of the field: [parses, hostname,      *)
(* pathname] (parses is FALSE when the constructor throws, which it also   *)
(* does for a missing field); eco_name is optional.                        *)
(***************************************************************************)
cleanEcosystemName(name) ==
    IF name = <<>> \/ name[1] = <<>> THEN Unknown
    ELSE Trim(BeforeDelimiter(name[1]))

cleanRepoUrl(url) ==
    IF ~url.parses THEN <<>>
    ELSE IF url.hostname # "github.com" THEN <<>>
    ELSE LET pathParts == Split(ReplaceDotGit(Substring1(url.pathname)), "/")
         IN IF Len(pathParts) >= 2
            THEN <<[owner |-> pathParts[1], repo |-> pathParts[2]]>>
            ELSE <<>>

\* The 'line' handler of parseInputFile: what results is after the line.
OnLine(res, line) ==
    IF line.text # "json" THEN res
    ELSE LET cleaned == cleanRepoUrl(line.repo_url) IN
         IF cleaned = <<>> THEN res
         ELSE Append(res, [owner |-> cleaned[1].owner,
                           repo |-> cleaned[1].repo,
                           ecosystem |-> cleanEcosystemName(line.eco_name)])

\* parseInputFile: the handler over every line, then 'close' resolves.
RECURSIVE parseInputFile(_)
parseInputFile(lines) ==
    IF lines = <<>> THEN <<>>
    ELSE OnLine(parseInputFile(SubSeq(lines, 1, Len(lines) - 1)),
                lines[Len(lines)])

\* `${owner}/${repo}`
FullName(owner, repo) == owner \o <<"/">> \o repo

Url(host, path) == [parses |-> TRUE, hostname |-> host, pathname |-> path]
NotAUrl == [parses |-> FALSE, hostname |-> "", pathname |-> <<>>]
JsonLine(url, eco) == [text |-> "json", repo_url |-> url, eco_name |-> eco]
BlankLine == [text |-> "blank", repo_url |-> NotAUrl, eco_name |-> <<>>]
MalformedLine == [text |-> "malformed", repo_url |-> NotAUrl, eco_name |-> <<>>]

(***************************************************************************)
(* The commit-listing API and fetchCommitsForRepo.                         *)
(*                                                                         *)
(* A response is the sequence of commits of response.data; a raw commit is *)
(* [sha, author, message] with author optional ([name, date], both         *)
(* optional) and message a non-empty sequence of lines.                    *)
(***************************************************************************)
RawCommitNoAuthor ==
    [sha |-> "c1", author |-> <<>>, message |-> <<"subject", "", "body">>]
RawCommitAuthor ==
    [sha |-> "c2",
     author |-> <<[name |-> <<"dev">>, date |-> <<"2024-01-01T10:00:00Z">>]>>,
     message |-> <<"one line">>]

ApiResponses == {<<>>, <<RawCommitAuthor, RawCommitNoAuthor>>}

\* The projection of one commit of response.data.
CommitRecord(commit) ==
    [sha |-> commit.sha,
     author |-> IF commit.author = <<>> \/ commit.author[1].name = <<>>
                   \/ commit.author[1].name[1] = ""
                THEN "Unknown" ELSE commit.author[1].name[1],
     date |-> IF commit.author = <<>> THEN <<>> ELSE commit.author[1].date,
     message |-> Head(commit.message)]

\* fetchCommitsForRepo when listCommits resolves with `response`.
fetchCommitsForRepo(response) ==
    [k \in 1..Len(response) |-> CommitRecord(response[k])]

(***************************************************************************)
(* The output file. JSON.stringify followed by JSON.parse gives back the   *)
(* entries (strings and arrays; an undefined date is left out by stringify *)
(* and is absent after parse, both the empty option here). writeFileSync   *)
(* truncates the file and then writes: a process that dies inside it       *)
(* leaves a byte prefix of the new text, which holds the first k entries   *)
(* whole, lacks at least the closing bracket and is rejected by            *)
(* JSON.parse.                                                             *)
(***************************************************************************)
AbsentFile == [state |-> "absent", entries |-> <<>>]
writeFileSync(data) == [state |-> "ok", entries |-> data]
TornWrite(data, k) == [state |-> "torn", entries |-> SubSeq(data, 1, k)]

\* main, lines 51-63: allCommitsData after loading previous progress.
LoadCollection(f) == IF f.state = "ok" THEN f.entries ELSE <<>>

\* main, lines 56-58: processedRepos after loading previous progress.
LoadProcessedMutant(data) == {}
LoadProcessed(data) == {data[k].repository : k \in 1..Len(data)}

\* main, line 81: allCommitsData.push(...)
PushMutant(data, entry) == <<entry>> \o data
Push(data, entry) == Append(data, entry)

\* main, line 85: processedRepos.add(fullName)
MarkProcessedMutant(processed, fullName) == processed
MarkProcessed(processed, fullName) == processed \cup {fullName}

\* main, lines 70-71: the key of the reference under the loop index.
CurrentRef == repoDataList[i + 1]
CurrentKey == FullName(CurrentRef.owner, CurrentRef.repo)

(***************************************************************************)
(* The inputs of the Ingestor runs.                                        *)
(***************************************************************************)
PathR == <<"/", "o", "/", "r">>
PathRGit == <<"/", "o", "/", "r", ".", "g", "i", "t">>
PathS == <<"/", "o", "/", "s">>
KeyR == <<"o", "/", "r">>

IngestLines ==
    { JsonLine(Url("github.com", PathR), <<<<"e", " ", "-", " ", "x">>>>),
      JsonLine(Url("github.com", PathRGit), <<>>),
      JsonLine(Url("github.com", PathS), <<<<" ", "f">>>>),
      JsonLine(Url("gitlab.com", PathR), <<<<"e">>>>) }

PriorEntry ==
    [repository |-> KeyR, ecosystem |-> <<"e">>,
     commits |-> <<[sha |-> "c0", author |-> "dev", date |-> <<>>,
                    message |-> "earlier"]>>]

InitialFiles == {AbsentFile, writeFileSync(<<PriorEntry>>)}

ParseIdle == pos = 0 /\ results = <<>> /\ cleanedRepo = <<>>
SumIdle ==
    /\ jsonData = <<>> /\ inputExists = FALSE
    /\ commitsByDay = <<>> /\ commitsByEcosystem = <<>>
    /\ totalCommits = 0 /\ idx = 0
    /\ dailyFile = <<>> /\ ecoFile = <<>>

Init ==
    /\ inputFile \in SeqsUpTo(IngestLines, MaxLines)
    /\ file \in InitialFiles
    /\ pc = "idle" /\ run = 0
    /\ allCommitsData = <<>> /\ processedRepos = {} /\ repoDataList = <<>>
    /\ i = 0 /\ newReposProcessed = 0
    /\ startFile = AbsentFile /\ fetchLog = <<>>
    /\ everSaved = {} /\ everFailed = {}
    /\ ParseIdle /\ SumIdle

(***************************************************************************)
(* main. The code between two awaits runs without interruption; the       *)
(* process can be killed at an await (Crash) or inside a writeFileSync     *)
(* (the Torn actions). A killed process loses its memory. The runs are    *)
(* those with GITHUB_TOKENS set (lines 21-29 return before any read or     *)
(* write otherwise); which client of the rotation sends a request (line    *)
(* 77) and the since and per_page parameters decide which response         *)
(* arrives, and every response of ApiResponses, or a failure, can arrive.  *)
(***************************************************************************)
ForgetMemory ==
    /\ allCommitsData' = <<>> /\ processedRepos' = {} /\ repoDataList' = <<>>
    /\ i' = 0 /\ newReposProcessed' = 0

\* Lines 48-68: load previous progress, parse the input, enter the loop.
Start ==
    /\ pc \in {"idle", "done", "crashed"}
    /\ run < MaxRuns
    /\ run' = run + 1
    /\ allCommitsData' = LoadCollection(file)
    /\ processedRepos' = LoadProcessed(LoadCollection(file))
    /\ repoDataList' = parseInputFile(inputFile)
    /\ i' = 0 /\ newReposProcessed' = 0
    /\ pc' = "loop"
    /\ startFile' = file /\ fetchLog' = <<>>
    /\ UNCHANGED <<inputFile, file, everSaved, everFailed, parseVars, sumVars>>

\* Lines 73-75: the key is in processedRepos, continue.
Skip ==
    /\ pc = "loop" /\ i < Len(repoDataList)
    /\ CurrentKey \in processedRepos
    /\ i' = i + 1
    /\ UNCHANGED <<inputFile, file, pc, run, allCommitsData, processedRepos,
                   repoDataList, newReposProcessed, startFile, fetchLog,
                   everSaved, everFailed, parseVars, sumVars>>

\* Lines 77-78: the call of fetchCommitsForRepo, up to its await.
FetchStart ==
    /\ pc = "loop" /\ i < Len(repoDataList)
    /\ CurrentKey \notin processedRepos
    /\ pc' = "fetching"
    /\ fetchLog' = Append(fetchLog, [key |-> CurrentKey, outcome |-> "pending"])
    /\ UNCHANGED <<inputFile, file, run, allCommitsData, processedRepos,
                   repoDataList, i, newReposProcessed, startFile,
                   everSaved, everFailed, parseVars, sumVars>>

Outcome(log, o) == [log EXCEPT ![Len(log)].outcome = o]

NewEntry(response) ==
    [repository |-> CurrentKey, ecosystem |-> CurrentRef.ecosystem,
     commits |-> fetchCommitsForRepo(response)]

\* Lines 78-85 when listCommits resolves: push, count, rewrite the file,
\* mark the key (an empty commit list is truthy and is saved too).
FetchOk ==
    /\ pc = "fetching"
    /\ \E response \in ApiResponses :
         LET data == Push(allCommitsData, NewEntry(response)) IN
         /\ allCommitsData' = data
         /\ file' = writeFileSync(data)
         /\ everSaved' = everSaved \cup Range(data)
    /\ newReposProcessed' = newReposProcessed + 1
    /\ processedRepos' = MarkProcessed(processedRepos, CurrentKey)
    /\ i' = i + 1
    /\ pc' = "loop"
    /\ fetchLog' = Outcome(fetchLog, "ok")
    /\ UNCHANGED <<inputFile, run, repoDataList, startFile, everFailed,
                   parseVars, sumVars>>

\* Lines 78-83 when the process is killed inside the writeFileSync of line 83.
FetchOkTorn ==
    /\ pc = "fetching"
    /\ \E response \in ApiResponses :
         LET data == Push(allCommitsData, NewEntry(response)) IN
         \E k \in 0..Len(data) : file' = TornWrite(data, k)
    /\ ForgetMemory
    /\ pc' = "crashed"
    /\ fetchLog' = Outcome(fetchLog, "ok")
    /\ UNCHANGED <<inputFile, run, startFile, everSaved, everFailed,
                   parseVars, sumVars>>

\* Lines 162-165 then 80, 85: listCommits rejects, null is returned, nothing
\* is pushed or written, the key is marked.
FetchFail ==
    /\ pc = "fetching"
    /\ processedRepos' = MarkProcessed(processedRepos, CurrentKey)
    /\ i' = i + 1
    /\ pc' = "loop"
    /\ fetchLog' = Outcome(fetchLog, "failed")
    /\ everFailed' = everFailed \cup {CurrentKey}
    /\ UNCHANGED <<inputFile, file, run, allCommitsData, repoDataList,
                   newReposProcessed, startFile, everSaved, parseVars, sumVars>>

\* Lines 88-90: the final flush.
FinalFlush ==
    /\ pc = "loop" /\ i = Len(repoDataList)
    /\ file' = writeFileSync(allCommitsData)
    /\ everSaved' = everSaved \cup Range(allCommitsData)
    /\ pc' = "done"
    /\ UNCHANGED <<inputFile, run, allCommitsData, processedRepos, repoDataList,
                   i, newReposProcessed, startFile, fetchLog, everFailed,
                   parseVars, sumVars>>

\* Line 89 when the process is killed inside the writeFileSync.
FinalFlushTorn ==
    /\ pc = "loop" /\ i = Len(repoDataList)
    /\ \E k \in 0..Len(allCommitsData) : file' = TornWrite(allCommitsData, k)
    /\ ForgetMemory
    /\ pc' = "crashed"
    /\ UNCHANGED <<inputFile, run, startFile, fetchLog, everSaved, everFailed,
                   parseVars, sumVars>>

\* The process is killed at an await: between two iterations or in a fetch.
Crash ==
    /\ pc \in {"loop", "fetching"}
    /\ ForgetMemory
    /\ pc' = "crashed"
    /\ UNCHANGED <<inputFile, file, run, startFile, fetchLog, everSaved,
                   everFailed, parseVars, sumVars>>

Next ==
    \/ Start \/ Skip \/ FetchStart \/ FetchOk \/ FetchOkTorn \/ FetchFail
    \/ FinalFlush \/ FinalFlushTorn \/ Crash

Spec == Init /\ [][Next]_vars

(***************************************************************************)
(* Properties of the Ingestor (specification Spec).                        *)
(***************************************************************************)
KeysOf(entries) == {entries[k].repository : k \in 1..Len(entries)}
RefKeys == [k \in 1..Len(repoDataList) |->
                FullName(repoDataList[k].owner, repoDataList[k].repo)]
InputRepeatsAKey ==
    \E a, b \in 1..Len(RefKeys) : a < b /\ RefKeys[a] = RefKeys[b]
FetchStep == pc = "loop" /\ pc' = "fetching"

\* C1: whatever the runs, crashes and repeated input lines, neither the
\* output file nor the collection in memory ever holds two entries with the
\* same repository key.
C1_UniqueKeys ==
    NoDuplicateKeys(file.entries) /\ NoDuplicateKeys(allCommitsData)

\* A second or later run has completed on an input that lists one
\* repository twice, starting from the file the previous run left.
C1_Witness ==
    /\ pc = "done" /\ run >= 2 /\ InputRepeatsAKey
    /\ startFile.state = "ok" /\ Len(startFile.entries) >= 1
    /\ Len(file.entries) >= 1

\* C2: when a run completes, every entry that a completed write had put in
\* the output file (before a crash or not) is in the persisted collection.
C2_SavedSurvivesCrash ==
    pc = "done" => everSaved \subseteq Range(file.entries)

\* C3: every change of the output file extends its previous content: the
\* entries it held are a prefix of the entries it holds afterwards.
C3_AppendOnly ==
    [][file' # file => IsPrefix(file.entries, file'.entries)]_vars

\* C4: no run issues a fetch for a repository whose entry a completed write
\* has already put in the output file.
C4_NoRefetchOfSaved ==
    [][FetchStep => CurrentKey \notin {e.repository : e \in everSaved}]_vars

\* C5 as stated: a repository whose fetch has failed is never fetched
\* again, in the same run or in a later one.
C5_NeverFetchedAgain ==
    [][FetchStep => CurrentKey \notin everFailed]_vars

\* C5 as amended: a repository whose fetch failed in the current run is
\* marked processed, has no entry in the collection or in the file the run
\* wrote, and is fetched only that once in the run.
C5_FailedNotRetriedInRun ==
    \A a \in 1..Len(fetchLog) :
        fetchLog[a].outcome = "failed" =>
            /\ pc # "crashed" => fetchLog[a].key \in processedRepos
            /\ fetchLog[a].key \notin KeysOf(allCommitsData)
            /\ file.state = "ok" => fetchLog[a].key \notin KeysOf(file.entries)
            /\ \A b \in 1..Len(fetchLog) :
                   fetchLog[b].key = fetchLog[a].key => a = b

\* A run has completed in which a fetch failed for a repository that the
\* input lists on two lines.
C5_Witness ==
    /\ pc = "done"
    /\ \E a \in 1..Len(fetchLog), b, c \in 1..Len(RefKeys) :
         /\ fetchLog[a].outcome = "failed"
         /\ b < c /\ RefKeys[b] = fetchLog[a].key /\ RefKeys[c] = fetchLog[a].key

\* The keys of `keys` that are not in `seen`, each once, in the order of
\* their first occurrence.
RECURSIVE FirstOccurrences(_, _)
FirstOccurrences(keys, seen) ==
    IF keys = <<>> THEN <<>>
    ELSE IF Head(keys) \in seen THEN FirstOccurrences(Tail(keys), seen)
    ELSE <<Head(keys)>>
             \o FirstOccurrences(Tail(keys), seen \cup {Head(keys)})

FetchIsOk(rec) == rec.outcome = "ok"

\* C10: a run that started from an absent or parseable file and completed
\* leaves the file equal to the collection in memory: the loaded entries in
\* their order, then one entry per successful fetch in fetch order; the
\* fetches are exactly the distinct new keys of the input in order of first
\* occurrence, once each; the count is the number of entries added.
C10_CompletedRun ==
    (pc = "done" /\ startFile.state \in {"absent", "ok"}) =>
        LET loaded == startFile.entries
            added == SubSeq(allCommitsData, Len(loaded) + 1, Len(allCommitsData))
            fetched == [k \in 1..Len(fetchLog) |-> fetchLog[k].key]
            succeeded == SelectSeq(fetchLog, FetchIsOk)
        IN /\ file = [state |-> "ok", entries |-> allCommitsData]
           /\ IsPrefix(loaded, allCommitsData)
           /\ fetched = FirstOccurrences(RefKeys, KeysOf(loaded))
           /\ \A k \in 1..Len(fetchLog) : fetchLog[k].outcome # "pending"
           /\ [k \in 1..Len(added) |-> added[k].repository]
                  = [k \in 1..Len(succeeded) |-> succeeded[k].key]
           /\ newReposProcessed = Len(added)

\* A run that loaded a non-empty collection has completed with a skipped
\* line and a new entry.
C10_Witness ==
    /\ pc = "done" /\ startFile.state = "ok" /\ Len(startFile.entries) >= 1
    /\ Len(repoDataList) = 2 /\ newReposProcessed = 1

(***************************************************************************)
(* parseInputFile stepped line by line (specification SpecParse): one      *)
(* 'line' event per line of the file, then 'close'.                        *)
(***************************************************************************)
ParsePaths ==
    { PathR, PathRGit, PathS \o <<"/", "x">>,
      <<"/", "o", "/", "d", "i", "g", "i", "t">>,
      <<"/", "o", "/", "g", "i", "t">>,
      <<"/", "o", "/">>,
      <<"/", "o", "/", ".", "g", "i", "t">>,
      <<"/", "o">>,
      <<"/">> }

ParseLineSet ==
    {JsonLine(Url("github.com", p), <<>>) : p \in ParsePaths}
    \cup { JsonLine(Url("gitlab.com", PathR), <<>>),
           JsonLine(Url("github.com", PathR), <<<<"e", " ", "-", " ", "x">>>>),
           JsonLine(Url("github.com", PathS), <<<<>>>>),
           JsonLine(NotAUrl, <<<<" ", "f", " ">>>>),
           BlankLine, MalformedLine }

InitParse ==
    /\ inputFile \in SeqsUpTo(ParseLineSet, MaxParseLines)
    /\ file = AbsentFile /\ pc = "parsing" /\ run = 0
    /\ allCommitsData = <<>> /\ processedRepos = {} /\ repoDataList = <<>>
    /\ i = 0 /\ newReposProcessed = 0
    /\ startFile = AbsentFile /\ fetchLog = <<>>
    /\ everSaved = {} /\ everFailed = {}
    /\ ParseIdle /\ SumIdle

LineEvent(kind) ==
    /\ pc = "parsing" /\ pos < Len(inputFile)
    /\ inputFile[pos + 1].text = kind
    /\ pos' = pos + 1
    /\ results' = OnLine(results, inputFile[pos + 1])
    /\ UNCHANGED <<inputFile, file, pc, run, allCommitsData, processedRepos,
                   repoDataList, i, newReposProcessed, startFile, fetchLog,
                   everSaved, everFailed, sumVars>>

\* Line 104: the line is blank after trim, nothing is done.
BlankLineEvent == LineEvent("blank") /\ cleanedRepo' = <<>>

\* Lines 105-106, 112: JSON.parse throws, the catch swallows it.
MalformedLineEvent == LineEvent("malformed") /\ cleanedRepo' = <<>>

\* Lines 106-111: the record's URL is cleaned and, with a result, pushed.
RecordLineEvent ==
    /\ LineEvent("json")
    /\ cleanedRepo' = cleanRepoUrl(inputFile[pos + 1].repo_url)

\* Line 116, then main line 65: 'close' resolves with the results.
Close ==
    /\ pc = "parsing" /\ pos = Len(inputFile)
    /\ pc' = "resolved"
    /\ repoDataList' = results
    /\ UNCHANGED <<inputFile, file, run, allCommitsData, processedRepos, i,
                   newReposProcessed, startFile, fetchLog, everSaved,
                   everFailed, parseVars, sumVars>>

NextParse ==
    \/ BlankLineEvent \/ MalformedLineEvent \/ RecordLineEvent \/ Close

SpecParse == InitParse /\ [][NextParse]_vars

(***************************************************************************)
(* Properties of parseInputFile and cleanRepoUrl (SpecParse).              *)
(***************************************************************************)
LastUrl == inputFile[pos].repo_url

\* The string without a trailing ".git", the four characters as written.
ReplaceDotGitLiteral(s) ==
    LET n == Len(s) IN
    IF n >= 4 /\ SubSeq(s, n - 3, n) = <<".", "g", "i", "t">>
    THEN SubSeq(s, 1, n - 4) ELSE s
LastWasRecord == pos >= 1 /\ inputFile[pos].text = "json"

\* C8: for a github.com URL whose path has at least two segments the result
\* is the first two segments of the path without a trailing literal ".git";
\* for another host, or a string that is no URL, there is no result.
C8_CleanRepoUrl ==
    LastWasRecord =>
        IF ~LastUrl.parses \/ LastUrl.hostname # "github.com"
        THEN cleanedRepo = <<>>
        ELSE LET path == Substring1(LastUrl.pathname)
                 parts == Split(ReplaceDotGitLiteral(path), "/")
             IN Len(Split(path, "/")) >= 2 =>
                    cleanedRepo = <<[owner |-> parts[1], repo |-> parts[2]]>>

\* C9: every reference in the list has a non-empty owner and a non-empty
\* repo.
C9_NonEmptyOwnerRepo ==
    \A r \in Range(results) \cup Range(repoDataList) :
        r.owner # <<>> /\ r.repo # <<>>

(***************************************************************************)
(* The Summarizer (specification SpecSum).                                 *)
(*                                                                         *)
(* commitsByDay and commitsByEcosystem are object literals used as maps.   *)
(* A JavaScript value is [t, n, s]: a number n, a string (the pieces s,    *)
(* each a text followed by a number appended to it), undefined, NaN,       *)
(* Object.prototype or one of its methods. An object is the function of    *)
(* its own properties; a read that finds no own property goes on to        *)
(* Object.prototype, as obj[key] does.                                     *)
(***************************************************************************)
Num(n) == [t |-> "number", n |-> n, s |-> <<>>]
Str(pieces) == [t |-> "string", n |-> 0, s |-> pieces]
Undefined == [t |-> "undefined", n |-> 0, s |-> <<>>]
NaN == [t |-> "NaN", n |-> 0, s |-> <<>>]
ObjectPrototype == [t |-> "object", n |-> 0, s |-> <<>>]
Method(name) == [t |-> "function", n |-> 0, s |-> <<[text |-> name, n |-> 0]>>]

EmptyObject == [k \in {} |-> Undefined]

\* The methods every object literal inherits from Object.prototype.
PrototypeMethods ==
    {"constructor", "hasOwnProperty", "isPrototypeOf", "propertyIsEnumerable",
     "toLocaleString", "toString", "valueOf"}

\* obj[key]
JsGet(obj, key) ==
    IF key = "__proto__" THEN ObjectPrototype
    ELSE IF key \in DOMAIN obj THEN obj[key]
    ELSE IF key \in PrototypeMethods THEN Method(key)
    ELSE Undefined

\* obj[key] = value: the __proto__ setter ignores a value that is neither
\* an object nor null; any other key becomes an own property.
JsSet(obj, key, value) ==
    IF key = "__proto__" THEN obj
    ELSE [k \in DOMAIN obj \cup {key} |-> IF k = key THEN value ELSE obj[k]]

\* !value is false
Truthy(value) ==
    /\ value.t \notin {"undefined", "NaN"}
    /\ value.t = "number" => value.n # 0
    /\ value.t = "string" => value.s # <<>>

\* value + n for a number n: addition of numbers, else concatenation of
\* the value's string form and the digits of n.
JsPlus(value, n) ==
    IF value.t = "number" THEN Num(value.n + n)
    ELSE IF value.t = "string" THEN Str(value.s \o <<[text |-> "", n |-> n]>>)
    ELSE IF value.t = "function"
         THEN Str(<<[text |-> "function " \o value.s[1].text
                               \o "() { [native code] }", n |-> n]>>)
    ELSE IF value.t = "object" THEN Str(<<[text |-> "[object Object]", n |-> n]>>)
    ELSE NaN

\* value++ on a property: ToNumber(value) + 1
JsIncrement(value) == IF value.t = "number" THEN Num(value.n + 1) ELSE NaN

\* A date of a commit record is [valid, day, hour, offset]: a timestamp on
\* day `day` of January 2024, at `hour` o'clock, `offset` hours east of
\* UTC; valid is FALSE for a value new Date() makes an Invalid Date of.
Timestamp(day, hour, offset) ==
    [valid |-> TRUE, day |-> day, hour |-> hour, offset |-> offset]
InvalidTimestamp == [valid |-> FALSE, day |-> 0, hour |-> 0, offset |-> 0]

DayString ==
    [d \in 0..4 |-> IF d = 0 THEN "2023-12-31"
                    ELSE IF d = 1 THEN "2024-01-01"
                    ELSE IF d = 2 THEN "2024-01-02"
                    ELSE IF d = 3 THEN "2024-01-03" ELSE "2024-01-04"]

\* new Date(date).toISOString().split('T')[0]: the calendar day in UTC.
IsoDay(date) == DayString[date.day + ((date.hour - date.offset) \div 24)]

\* Lines 22-28: the inner forEach over the commits of one repository.
RECURSIVE CountCommitsByDay(_, _)
CountCommitsByDay(byDay, commits) ==
    IF commits = <<>> THEN byDay
    ELSE LET commit == Head(commits) IN
         IF commit.date = <<>> THEN CountCommitsByDay(byDay, Tail(commits))
         ELSE LET date == IsoDay(commit.date[1])
                  zeroed == IF ~Truthy(JsGet(byDay, date))
                            THEN JsSet(byDay, date, Num(0)) ELSE byDay
              IN CountCommitsByDay(
                     JsSet(zeroed, date, JsIncrement(JsGet(zeroed, date))),
                     Tail(commits))

\* Lines 35-38: commitsByEcosystem after one repository.
AddToEcosystem(byEco, ecosystem, commitCount) ==
    LET zeroed == IF ~Truthy(JsGet(byEco, ecosystem))
                  THEN JsSet(byEco, ecosystem, Num(0)) ELSE byEco
    IN JsSet(zeroed, ecosystem, JsPlus(JsGet(zeroed, ecosystem), commitCount))

HasInvalidDate(commits) ==
    \E k \in 1..Len(commits) :
        commits[k].date # <<>> /\ ~commits[k].date[1].valid

SumDates ==
    {<<>>, <<Timestamp(1, 10, 0)>>, <<Timestamp(1, 23, -2)>>, <<InvalidTimestamp>>}
SumLabels == {"npm", "__proto__", "constructor"}
SumEntries ==
    {[ecosystem |-> e, commits |-> c] :
        e \in SumLabels,
        c \in SeqsUpTo({[date |-> d] : d \in SumDates}, MaxCommits)}

InitSum ==
    /\ jsonData \in SeqsUpTo(SumEntries, MaxRepos)
    /\ inputExists \in BOOLEAN
    /\ commitsByDay = EmptyObject /\ commitsByEcosystem = EmptyObject
    /\ totalCommits = 0 /\ idx = 0
    /\ dailyFile = <<>> /\ ecoFile = <<>>
    /\ inputFile = <<>> /\ file = AbsentFile /\ pc = "start" /\ run = 0
    /\ allCommitsData = <<>> /\ processedRepos = {} /\ repoDataList = <<>>
    /\ i = 0 /\ newReposProcessed = 0
    /\ startFile = AbsentFile /\ fetchLog = <<>>
    /\ everSaved = {} /\ everFailed = {}
    /\ ParseIdle

\* Lines 11-14: the input file does not exist, return.
MissingInput ==
    /\ pc = "start" /\ ~inputExists
    /\ pc' = "aborted"
    /\ UNCHANGED <<inputFile, file, run, allCommitsData, processedRepos,
                   repoDataList, i, newReposProcessed, startFile, fetchLog,
                   everSaved, everFailed, parseVars, sumVars>>

\* Lines 16-20: read and parse the collection.
ReadInput ==
    /\ pc = "start" /\ inputExists
    /\ pc' = "daily"
    /\ UNCHANGED <<inputFile, file, run, allCommitsData, processedRepos,
                   repoDataList, i, newReposProcessed, startFile, fetchLog,
                   everSaved, everFailed, parseVars, sumVars>>

\* Lines 21-29: one repository of the first forEach.
DailyStep ==
    /\ pc = "daily" /\ idx < Len(jsonData)
    /\ ~HasInvalidDate(jsonData[idx + 1].commits)
    /\ commitsByDay' = CountCommitsByDay(commitsByDay, jsonData[idx + 1].commits)
    /\ idx' = idx + 1
    /\ UNCHANGED <<ingestVars, parseVars, jsonData, inputExists,
                   commitsByEcosystem, totalCommits, dailyFile, ecoFile>>

\* Line 24: toISOString throws a RangeError for an Invalid Date; nothing
\* catches it and nothing is written.
DailyThrow ==
    /\ pc = "daily" /\ idx < Len(jsonData)
    /\ HasInvalidDate(jsonData[idx + 1].commits)
    /\ pc' = "thrown"
    /\ UNCHANGED <<inputFile, file, run, allCommitsData, processedRepos,
                   repoDataList, i, newReposProcessed, startFile, fetchLog,
                   everSaved, everFailed, parseVars, sumVars>>

\* Lines 32-33: the first forEach is over, the second begins.
DailyDone ==
    /\ pc = "daily" /\ idx = Len(jsonData)
    /\ pc' = "eco" /\ idx' = 0 /\ totalCommits' = 0
    /\ UNCHANGED <<inputFile, file, run, allCommitsData, processedRepos,
                   repoDataList, i, newReposProcessed, startFile, fetchLog,
                   everSaved, everFailed, parseVars, jsonData, inputExists,
                   commitsByDay, commitsByEcosystem, dailyFile, ecoFile>>

\* Lines 34-40: one repository of the second forEach.
EcoStep ==
    /\ pc = "eco" /\ idx < Len(jsonData)
    /\ LET repoData == jsonData[idx + 1]
           commitCount == Len(repoData.commits)
       IN /\ commitsByEcosystem' =
                 AddToEcosystem(commitsByEcosystem, repoData.ecosystem, commitCount)
          /\ totalCommits' = totalCommits + commitCount
    /\ idx' = idx + 1
    /\ UNCHANGED <<ingestVars, parseVars, jsonData, inputExists, commitsByDay,
                   dailyFile, ecoFile>>

\* Lines 43-46: both summaries are written.
WriteSummaries ==
    /\ pc = "eco" /\ idx = Len(jsonData)
    /\ dailyFile' = <<commitsByDay>>
    /\ ecoFile' = <<[totals |-> commitsByEcosystem, overallTotal |-> totalCommits]>>
    /\ pc' = "written"
    /\ UNCHANGED <<inputFile, file, run, allCommitsData, processedRepos,
                   repoDataList, i, newReposProcessed, startFile, fetchLog,
                   everSaved, everFailed, parseVars, jsonData, inputExists,
                   commitsByDay, commitsByEcosystem, totalCommits, idx>>

NextSum ==
    \/ MissingInput \/ ReadInput \/ DailyStep \/ DailyThrow \/ DailyDone
    \/ EcoStep \/ WriteSummaries

SpecSum == InitSum /\ [][NextSum]_vars

(***************************************************************************)
(* Properties of the Summarizer (SpecSum).                                 *)
(***************************************************************************)
RECURSIVE SumValues(_)
SumValues(obj) ==
    IF DOMAIN obj = {} THEN 0
    ELSE LET k == CHOOSE key \in DOMAIN obj : TRUE
         IN obj[k].n + SumValues([key \in DOMAIN obj \ {k} |-> obj[key]])

RECURSIVE CommitCount(_)
CommitCount(data) ==
    IF data = <<>> THEN 0 ELSE Len(Head(data).commits) + CommitCount(Tail(data))

RECURSIVE CommitCountOf(_, _)
CommitCountOf(data, ecosystem) ==
    IF data = <<>> THEN 0
    ELSE (IF Head(data).ecosystem = ecosystem THEN Len(Head(data).commits) ELSE 0)
             + CommitCountOf(Tail(data), ecosystem)

IsDated(commit) == commit.date # <<>>

RECURSIVE DatedCount(_)
DatedCount(data) ==
    IF data = <<>> THEN 0
    ELSE Len(SelectSeq(Head(data).commits, IsDated)) + DatedCount(Tail(data))

EcosystemTotalIs(ecosystem) ==
    /\ ecosystem \in DOMAIN ecoFile[1].totals
    /\ ecoFile[1].totals[ecosystem] = Num(CommitCountOf(jsonData, ecosystem))

\* C6: in the written ecosystem summary every total is the number of
\* commits of the entries with that label, overallTotal is the sum of the
\* totals, and overallTotal is the number of commit records of the input.
C6_TotalsAddUp ==
    pc = "written" =>
        /\ \A k \in 1..Len(jsonData) : EcosystemTotalIs(jsonData[k].ecosystem)
        /\ \A e \in DOMAIN ecoFile[1].totals : ecoFile[1].totals[e].t = "number"
        /\ ecoFile[1].overallTotal = SumValues(ecoFile[1].totals)
        /\ ecoFile[1].overallTotal = CommitCount(jsonData)

\* C7: the daily counts add up to the number of commit records with a
\* date, which is at most overallTotal, and a repository with a dateless
\* commit has all its commits in its ecosystem's total and in overallTotal.
C7_DatelessCounted ==
    pc = "written" =>
        /\ SumValues(dailyFile[1]) = DatedCount(jsonData)
        /\ SumValues(dailyFile[1]) <= ecoFile[1].overallTotal
        /\ ecoFile[1].overallTotal = CommitCount(jsonData)
        /\ \A k \in 1..Len(jsonData) :
               (\E c \in 1..Len(jsonData[k].commits) :
                    ~IsDated(jsonData[k].commits[c]))
                   => EcosystemTotalIs(jsonData[k].ecosystem)

\* The part of C7 about the daily summary alone.
DailyCountsDatedCommits ==
    pc = "written" =>
        /\ SumValues(dailyFile[1]) = DatedCount(jsonData)
        /\ SumValues(dailyFile[1]) <= ecoFile[1].overallTotal
        /\ ecoFile[1].overallTotal = CommitCount(jsonData)

====
